---- MODULE Spec2Model ----
(***************************************************************************)
(* Model of slicer_helper.py: matrix conversion helpers, transform-node    *)
(* matrix update, IGT-link connector creation, mesh and volume models.     *)
(*                                                                         *)
(* A matrix is its row-major element sequence (what ravel() yields), of    *)
(* length 16 (4x4) or 9 (3x3).  Elements are integers; the matrices used   *)
(* are unimodular (determinant 1 or -1) or singular, so that the inverse   *)
(* numpy computes is exact and is the adjugate times the determinant.      *)
(***************************************************************************)
EXTENDS Integers, Sequences, FiniteSets, TLC

(* ---------------------------------------------------------------------- *)
(* Bounds                                                                  *)
(* ---------------------------------------------------------------------- *)
NumNodes == 3      \* transform nodes in the scene (chains up to this long)
MaxCalls == 3      \* calls of updateTransformMatrixFromArray per behaviour
MaxEdits == 2      \* element edits of a matrix or an array per behaviour
MaxOps == 4        \* scene operations (constructions, voxel edits, refreshes)

(* ---------------------------------------------------------------------- *)
(* Matrix algebra (numpy / vtkMatrix4x4 element semantics)                 *)
(* ---------------------------------------------------------------------- *)
At(m, n, i, j) == m[(i - 1) * n + j]

\* np.eye(matrixSize), and the state of a freshly constructed vtkMatrix
Eye(n) == [k \in 1..(n * n) |-> IF ((k - 1) \div n) = ((k - 1) % n) THEN 1 ELSE 0]

\* np.dot(a, b) for two 4x4 arrays
Dot(a, b) ==
  [k \in 1..16 |->
     LET i == ((k - 1) \div 4) + 1
         j == ((k - 1) % 4) + 1
     IN  At(a, 4, i, 1) * At(b, 4, 1, j) + At(a, 4, i, 2) * At(b, 4, 2, j)
       + At(a, 4, i, 3) * At(b, 4, 3, j) + At(a, 4, i, 4) * At(b, 4, 4, j)]

\* the k-th (k in 1..3) row/column index left after deleting index d of 1..4
Skip(d, k) == IF k < d THEN k ELSE k + 1

\* determinant of the 3x3 minor of m obtained by deleting row i and column j
Minor(m, i, j) ==
  LET e(r, c) == At(m, 4, Skip(i, r), Skip(j, c))
  IN    e(1, 1) * (e(2, 2) * e(3, 3) - e(2, 3) * e(3, 2))
      - e(1, 2) * (e(2, 1) * e(3, 3) - e(2, 3) * e(3, 1))
      + e(1, 3) * (e(2, 1) * e(3, 2) - e(2, 2) * e(3, 1))

Sign(i, j) == IF (i + j) % 2 = 0 THEN 1 ELSE -1

Det(m) ==
    Sign(1, 1) * At(m, 4, 1, 1) * Minor(m, 1, 1)
  + Sign(1, 2) * At(m, 4, 1, 2) * Minor(m, 1, 2)
  + Sign(1, 3) * At(m, 4, 1, 3) * Minor(m, 1, 3)
  + Sign(1, 4) * At(m, 4, 1, 4) * Minor(m, 1, 4)

\* np.linalg.inv raises LinAlgError on a singular matrix
Invertible(m) == Det(m) # 0

\* np.linalg.inv(m) for det(m) in {1, -1}: adjugate / det = adjugate * det
Inv(m) ==
  [k \in 1..16 |->
     LET i == ((k - 1) \div 4) + 1
         j == ((k - 1) % 4) + 1
     IN  Det(m) * Sign(i, j) * Minor(m, j, i)]

(* ---------------------------------------------------------------------- *)
(* Input matrices                                                          *)
(* ---------------------------------------------------------------------- *)
I4 == Eye(4)
\* translation by (1, 0, 0)
Tx == << 1, 0, 0, 1,   0, 1, 0, 0,   0, 0, 1, 0,   0, 0, 0, 1 >>
\* rotation by 90 degrees about z, translation by (0, 2, 0)
Rz == << 0, -1, 0, 0,   1, 0, 0, 2,   0, 0, 1, 0,   0, 0, 0, 1 >>
\* projection onto the xy plane (singular)
Pz == << 1, 0, 0, 0,   0, 1, 0, 0,   0, 0, 0, 0,   0, 0, 0, 1 >>

Arrays4 == {I4, Tx, Rz, Pz}

(* ---------------------------------------------------------------------- *)
(* State                                                                   *)
(* ---------------------------------------------------------------------- *)
VARIABLES
  parent,      \* transform spec: node -> parent transform node, 0 = None
  toParent,    \* transform spec: node -> its matrix-transform-to-parent
  calls,       \* transform spec: number of update calls made
  last,        \* transform spec: the last update call and how it ended
  heap,        \* matrix spec: buffer id -> the elements stored in that buffer
  vmat,        \* matrix spec: the VTK object the caller holds (kind, buffer)
  narr,        \* matrix spec: the numpy array the caller holds (shape, buffer)
  conv,        \* matrix spec: the last conversion call and how it ended
  vExp,        \* matrix spec: elements the VTK matrix was given directly
  aExp,        \* matrix spec: elements the numpy array was given directly
  since,       \* matrix spec: objects edited since the last conversion
  edits,       \* matrix spec: number of element edits made
  objs,        \* scene spec: every node object created, in creation order
  log,         \* scene spec: the host calls made so far, in order
  meshModels,  \* scene spec: the SlicerMeshModel instances constructed
  volumeModels,\* scene spec: the SlicerVolumeModel instances constructed
  voxExp,      \* scene spec: per volume model, the voxels its edits wrote
  lastOp,      \* scene spec: the last operation, its arguments and result
  prevObjs,    \* scene spec: objs as it was when the last operation began
  ops          \* scene spec: number of operations made

tvars == << parent, toParent, calls, last >>
mvars == << heap, vmat, narr, conv, vExp, aExp, since, edits >>

svars == << objs, log, meshModels, volumeModels, voxExp, lastOp, prevObjs, ops >>

vars == << tvars, mvars, svars >>

None == 0

(* ---------------------------------------------------------------------- *)
(* VTK matrix <-> numpy array conversion                                   *)
(*                                                                         *)
(* Every VTK matrix and every numpy array owns a buffer of the heap; two   *)
(* objects alias each other exactly when they name the same buffer.  The   *)
(* caller holds at most one VTK object and one array, so two buffers are   *)
(* enough.  vExp and aExp follow what the caller wrote into each object    *)
(* directly (its initial elements, its element edits, and the elements a   *)
(* conversion is to give it); they never read the heap.                    *)
(* ---------------------------------------------------------------------- *)
NoBuf == None
NoMatrix == [kind |-> "none", buf |-> NoBuf]
NoArray == [shape |-> << >>, buf |-> NoBuf]
NoConv == [op |-> "none", raised |-> FALSE]

\* isinstance(vmatrix, vtkMatrix4x4) / isinstance(vmatrix, vtkMatrix3x3)
IsVTKMatrix(kind) == kind \in {"vtkMatrix4x4", "vtkMatrix3x3"}
matrixSize(kind) == IF kind = "vtkMatrix4x4" THEN 4 ELSE 3

\* the buffer of a newly allocated object: not the live buffer b
Fresh(b) == IF b = 1 THEN 2 ELSE 1

R3 == << 0, -1, 3,   1, 0, 0,   0, 0, 1 >>
VTKInputs ==
       {[kind |-> "vtkMatrix4x4", elems |-> m] : m \in {I4, Tx, Rz}}
  \cup {[kind |-> "vtkMatrix3x3", elems |-> m] : m \in {Eye(3), R3}}
  \cup {[kind |-> "vtkTransform", elems |-> I4]}
ArrayInputs ==
       {[shape |-> << 4, 4 >>, elems |-> m] : m \in {I4, Tx, Rz}}
  \cup {[shape |-> << 3, 3 >>, elems |-> m] : m \in {Eye(3), R3}}
  \cup {[shape |-> << 2, 2 >>, elems |-> Eye(2)],
        [shape |-> << 4, 3 >>, elems |-> [k \in 1..12 |-> k]],
        [shape |-> << 16 >>, elems |-> Tx],
        [shape |-> << 1, 9 >>, elems |-> R3]}
EditVals == {7}

\* arrayFromVTKMatrix(vmatrix) returning an array on the matrix's own buffer
ArrayFromVTKMatrix_NoCopy ==
  /\ vmat.buf # NoBuf
  /\ IF IsVTKMatrix(vmat.kind)
     THEN /\ heap' = heap
          /\ narr' = [shape |-> << matrixSize(vmat.kind), matrixSize(vmat.kind) >>,
                      buf |-> vmat.buf]
          /\ aExp' = vExp
          /\ conv' = [op |-> "arrayFromVTKMatrix", raised |-> FALSE]
     ELSE /\ conv' = [op |-> "arrayFromVTKMatrix", raised |-> TRUE]
          /\ UNCHANGED << heap, narr, aExp >>
  /\ since' = {}
  /\ UNCHANGED << vmat, vExp, edits, tvars, svars >>

\* arrayFromVTKMatrix(vmatrix)
ArrayFromVTKMatrix ==
  /\ vmat.buf # NoBuf
  /\ IF IsVTKMatrix(vmat.kind)
     THEN LET n == matrixSize(vmat.kind)
              b == Fresh(vmat.buf)
              \* narray = np.eye(matrixSize)
              eye == [heap EXCEPT ![b] = Eye(n)]
          IN  \* vmatrix.DeepCopy(narray.ravel(), vmatrix)
              /\ heap' = [eye EXCEPT ![b] = eye[vmat.buf]]
              /\ narr' = [shape |-> << n, n >>, buf |-> b]
              /\ aExp' = vExp
              /\ conv' = [op |-> "arrayFromVTKMatrix", raised |-> FALSE]
     ELSE /\ conv' = [op |-> "arrayFromVTKMatrix", raised |-> TRUE]
          /\ UNCHANGED << heap, narr, aExp >>
  /\ since' = {}
  /\ UNCHANGED << vmat, vExp, edits, tvars, svars >>

\* updateVTKMatrixFromArray(vmatrix, narray): whether it raises RuntimeError
updateVTKMatrixRaises(vm, na) ==
  \/ ~IsVTKMatrix(vm.kind)
  \/ na.shape # << matrixSize(vm.kind), matrixSize(vm.kind) >>

\* updateVTKMatrixFromArray(vmatrix, narray): vmatrix.DeepCopy(narray.ravel())
updateVTKMatrixFromArray(h, vm, na) == [h EXCEPT ![vm.buf] = h[na.buf]]

\* the VTK matrix class vtkMatrixFromArray constructs, "none" when it raises
MatrixClassOnly4x4(shape) ==
  IF shape = << 4, 4 >> THEN "vtkMatrix4x4" ELSE "none"

MatrixClass(shape) ==
  IF shape = << 4, 4 >> THEN "vtkMatrix4x4"
  ELSE IF shape = << 3, 3 >> THEN "vtkMatrix3x3"
  ELSE "none"

\* vtkMatrixFromArray(narray)
VtkMatrixFromArray ==
  /\ narr.buf # NoBuf
  /\ LET kind == MatrixClass(narr.shape)
         \* vmatrix = vtkMatrix4x4() / vtkMatrix3x3(): a new identity matrix
         vm == [kind |-> kind, buf |-> Fresh(narr.buf)]
         fresh == [heap EXCEPT ![vm.buf] = Eye(matrixSize(kind))]
     IN  IF kind # "none" /\ ~updateVTKMatrixRaises(vm, narr)
         THEN /\ heap' = updateVTKMatrixFromArray(fresh, vm, narr)
              /\ vmat' = vm
              /\ vExp' = aExp
              /\ conv' = [op |-> "vtkMatrixFromArray", raised |-> FALSE]
         ELSE /\ conv' = [op |-> "vtkMatrixFromArray", raised |-> TRUE]
              /\ UNCHANGED << heap, vmat, vExp >>
  /\ since' = {}
  /\ UNCHANGED << narr, aExp, edits, tvars, svars >>

\* vmatrix.SetElement(i, j, v) by the caller, k the element's row-major place
SetElement(k, v) ==
  /\ vmat.buf # NoBuf /\ IsVTKMatrix(vmat.kind)
  /\ edits < MaxEdits
  /\ k \in 1..Len(heap[vmat.buf])
  /\ heap' = [heap EXCEPT ![vmat.buf][k] = v]
  /\ vExp' = [vExp EXCEPT ![k] = v]
  /\ since' = since \cup {"matrix"}
  /\ edits' = edits + 1
  /\ UNCHANGED << vmat, narr, aExp, conv, tvars, svars >>

\* narray[i, j] = v by the caller, k the element's row-major place
SetItem(k, v) ==
  /\ narr.buf # NoBuf
  /\ edits < MaxEdits
  /\ k \in 1..Len(heap[narr.buf])
  /\ heap' = [heap EXCEPT ![narr.buf][k] = v]
  /\ aExp' = [aExp EXCEPT ![k] = v]
  /\ since' = since \cup {"array"}
  /\ edits' = edits + 1
  /\ UNCHANGED << vmat, narr, vExp, conv, tvars, svars >>

MatrixIdle ==
  /\ heap = << << >>, << >> >>
  /\ vmat = NoMatrix
  /\ narr = NoArray
  /\ conv = NoConv
  /\ vExp = << >>
  /\ aExp = << >>
  /\ since = {}
  /\ edits = 0

(* ---------------------------------------------------------------------- *)
(* The host scene (slicer.mrmlScene) and its nodes                         *)
(*                                                                         *)
(* A node object is named by its place in objs.  Its id is None until      *)
(* AddNode puts it in the scene, which gives it an ID no other node has.   *)
(* Host calls are functions of the pair S = [objs, log]; each appends      *)
(* itself to the log, so that the order of a handler's calls can be read   *)
(* from the state the handler leaves.                                      *)
(* ---------------------------------------------------------------------- *)
NewNode(class) ==
  [class |-> class, name |-> "", id |-> None, client |-> << >>,
   started |-> FALSE, transformID |-> None, displayIDs |-> {}, voxels |-> << >>]

Logged(S, ev, n) == Append(S.log, [ev |-> ev, node |-> n])

\* the constructor of a node class: a node object that is in no scene
New(S, class) == [objs |-> Append(S.objs, NewNode(class)), log |-> S.log]

InScene(o) == {i \in DOMAIN o : o[i].id # None}
NextID(o) == Cardinality(InScene(o)) + 1

\* slicer.mrmlScene.AddNode(node)
AddNode(S, n) ==
  [objs |-> [S.objs EXCEPT ![n].id = NextID(S.objs)],
   log |-> Logged(S, "AddNode", n)]

\* node.SetName(name)
SetName(S, n, name) ==
  [objs |-> [S.objs EXCEPT ![n].name = name], log |-> Logged(S, "SetName", n)]

\* connector.SetTypeClient(ip, port)
SetTypeClient(S, n, ip, port) ==
  [objs |-> [S.objs EXCEPT ![n].client = << ip, port >>],
   log |-> Logged(S, "SetTypeClient", n)]

\* connector.Start(): starts the connection unless no type has been set
Start(S, n) ==
  [objs |-> [S.objs EXCEPT ![n].started = (S.objs[n].client # << >>)],
   log |-> Logged(S, "Start", n)]

\* node.SetAndObserveTransformNodeID(id)
SetAndObserveTransformNodeID(S, n, id) ==
  [objs |-> [S.objs EXCEPT ![n].transformID = id],
   log |-> Logged(S, "SetAndObserveTransformNodeID", n)]

\* node.AddAndObserveDisplayNodeID(id)
AddAndObserveDisplayNodeID(S, n, id) ==
  [objs |-> [S.objs EXCEPT ![n].displayIDs = @ \cup {id}],
   log |-> Logged(S, "AddAndObserveDisplayNodeID", n)]

\* node.Modified(): notifies the node's observers
Modified(S, n) == [objs |-> S.objs, log |-> Logged(S, "Modified", n)]

\* node.GetID()
GetID(S, n) == S.objs[n].id

Loadable(filename) == filename # "missing"

\* slicer.util.loadModel / loadLabelVolume of a readable file: the data node
\* and its display node are created and put in the scene; the data node is
\* the second to last object of the result
Load(S, class, displayClass, filename, voxels) ==
  LET n == Len(S.objs) + 1
      d == n + 1
      s1 == AddNode(New(S, class), n)
      s2 == AddNode(New(s1, displayClass), d)
      s3 == [objs |-> [s2.objs EXCEPT ![n].name = filename, ![n].voxels = voxels,
                                      ![n].displayIDs = {s2.objs[d].id}],
             log |-> s2.log]
  IN  s3

InitialVoxels == << 0, 0 >>
IPs == {"localhost", "10.0.0.2"}
Ports == {18944}
Names == {"tool", "probe"}
Files == {"asset", "missing"}
VoxelVals == {1, 2}

(* ---------------------------------------------------------------------- *)
(* make_igtl_node                                                          *)
(* ---------------------------------------------------------------------- *)
\* make_igtl_node with the connector started before its client address is set
make_igtl_node_StartFirst(ip, port, name) ==
  /\ ops < MaxOps
  /\ LET n == Len(objs) + 1
         s0 == New([objs |-> objs, log |-> log], "vtkMRMLIGTLConnectorNode")
         s1 == AddNode(s0, n)
         s2 == SetName(s1, n, name)
         s3 == Start(s2, n)
         s4 == SetTypeClient(s3, n, ip, port)
     IN  /\ objs' = s4.objs
         /\ log' = s4.log
         /\ lastOp' = [op |-> "make_igtl_node", raised |-> FALSE, ret |-> n,
                       args |-> [ip |-> ip, port |-> port, name |-> name]]
  /\ prevObjs' = objs
  /\ ops' = ops + 1
  /\ UNCHANGED << meshModels, volumeModels, voxExp, tvars, mvars >>

\* make_igtl_node(ip, port, name)
make_igtl_node(ip, port, name) ==
  /\ ops < MaxOps
  /\ LET n == Len(objs) + 1
         s0 == New([objs |-> objs, log |-> log], "vtkMRMLIGTLConnectorNode")
         s1 == AddNode(s0, n)
         s2 == SetName(s1, n, name)
         s3 == SetTypeClient(s2, n, ip, port)
         s4 == Start(s3, n)
     IN  /\ objs' = s4.objs
         /\ log' = s4.log
         /\ lastOp' = [op |-> "make_igtl_node", raised |-> FALSE, ret |-> n,
                       args |-> [ip |-> ip, port |-> port, name |-> name]]
  /\ prevObjs' = objs
  /\ ops' = ops + 1
  /\ UNCHANGED << meshModels, volumeModels, voxExp, tvars, mvars >>

(* ---------------------------------------------------------------------- *)
(* SlicerMeshModel                                                         *)
(* ---------------------------------------------------------------------- *)
\* SlicerMeshModel.__init__ with GetID() read before the node is in the scene
SlicerMeshModel_IDBeforeAdd(transform_name, mesh_filename) ==
  /\ ops < MaxOps
  /\ IF Loadable(mesh_filename)
     THEN LET m == Len(objs) + 1
              t == m + 2
              s1 == Load([objs |-> objs, log |-> log], "vtkMRMLModelNode",
                         "vtkMRMLModelDisplayNode", mesh_filename, << >>)
              s2 == New(s1, "vtkMRMLTransformNode")
              s3 == SetName(s2, t, transform_name)
              tid == GetID(s3, t)
              s4 == AddNode(s3, t)
              s5 == SetAndObserveTransformNodeID(s4, m, tid)
          IN  /\ objs' = s5.objs
              /\ log' = s5.log
              /\ meshModels' = Append(meshModels,
                   [transform_name |-> transform_name, mesh_filename |-> mesh_filename,
                    mesh_model_node |-> m, mesh_nodeID |-> GetID(s1, m),
                    transform_node |-> t, transform_nodeID |-> tid,
                    display_node |-> m + 1])
              /\ lastOp' = [op |-> "SlicerMeshModel", raised |-> FALSE,
                            ret |-> Len(meshModels) + 1]
     ELSE /\ lastOp' = [op |-> "SlicerMeshModel", raised |-> TRUE, ret |-> None]
          /\ UNCHANGED << objs, log, meshModels >>
  /\ prevObjs' = objs
  /\ ops' = ops + 1
  /\ UNCHANGED << volumeModels, voxExp, tvars, mvars >>

\* SlicerMeshModel.__init__(self, transform_name, mesh_filename); when the file
\* cannot be loaded, loadModel returns no node and line 173 raises
SlicerMeshModel(transform_name, mesh_filename) ==
  /\ ops < MaxOps
  /\ IF Loadable(mesh_filename)
     THEN LET m == Len(objs) + 1
              t == m + 2
              s1 == Load([objs |-> objs, log |-> log], "vtkMRMLModelNode",
                         "vtkMRMLModelDisplayNode", mesh_filename, << >>)
              s2 == New(s1, "vtkMRMLTransformNode")
              s3 == SetName(s2, t, transform_name)
              s4 == AddNode(s3, t)
              tid == GetID(s4, t)
              s5 == SetAndObserveTransformNodeID(s4, m, tid)
          IN  /\ objs' = s5.objs
              /\ log' = s5.log
              /\ meshModels' = Append(meshModels,
                   [transform_name |-> transform_name, mesh_filename |-> mesh_filename,
                    mesh_model_node |-> m, mesh_nodeID |-> GetID(s1, m),
                    transform_node |-> t, transform_nodeID |-> tid,
                    display_node |-> m + 1])
              /\ lastOp' = [op |-> "SlicerMeshModel", raised |-> FALSE,
                            ret |-> Len(meshModels) + 1]
     ELSE /\ lastOp' = [op |-> "SlicerMeshModel", raised |-> TRUE, ret |-> None]
          /\ UNCHANGED << objs, log, meshModels >>
  /\ prevObjs' = objs
  /\ ops' = ops + 1
  /\ UNCHANGED << volumeModels, voxExp, tvars, mvars >>

(* ---------------------------------------------------------------------- *)
(* SlicerVolumeModel                                                       *)
(* ---------------------------------------------------------------------- *)
\* slicer_logic.UpdateDisplayNodeFromVolumeNode(displayNode, volumeNode)
UpdateDisplayNodeFromVolumeNode(S, d, v) ==
  [objs |-> S.objs, log |-> Logged(S, "UpdateDisplayNodeFromVolumeNode", d)]

\* slicer.util.arrayFromVolume(volumeNode): a view of the node's own storage
arrayFromVolume(v) == [view_of |-> v, own |-> << >>]

\* SlicerVolumeModel.__init__(self, volume_filename); when the file cannot be
\* loaded, loadLabelVolume returns no node and line 196 raises, after the
\* display node was created and put in the scene
SlicerVolumeModel(volume_filename) ==
  /\ ops < MaxOps
  /\ IF Loadable(volume_filename)
     THEN LET v == Len(objs) + 1
              d == v + 2
              s1 == Load([objs |-> objs, log |-> log], "vtkMRMLLabelMapVolumeNode",
                         "vtkMRMLLabelMapVolumeDisplayNode", volume_filename,
                         InitialVoxels)
              s2 == New(s1, "vtkMRMLVolumeRenderingDisplayNode")
              s3 == AddNode(s2, d)
              s4 == UpdateDisplayNodeFromVolumeNode(s3, d, v)
              s5 == AddAndObserveDisplayNodeID(s4, v, GetID(s4, d))
          IN  /\ objs' = s5.objs
              /\ log' = s5.log
              /\ volumeModels' = Append(volumeModels,
                   [label_volumeNode |-> v, displayNode |-> d,
                    voxel_array |-> arrayFromVolume(v)])
              /\ voxExp' = Append(voxExp, InitialVoxels)
              /\ lastOp' = [op |-> "SlicerVolumeModel", raised |-> FALSE,
                            ret |-> Len(volumeModels) + 1]
     ELSE LET d == Len(objs) + 1
              s2 == New([objs |-> objs, log |-> log],
                        "vtkMRMLVolumeRenderingDisplayNode")
              s3 == AddNode(s2, d)
              s4 == UpdateDisplayNodeFromVolumeNode(s3, d, None)
          IN  /\ objs' = s4.objs
              /\ log' = s4.log
              /\ lastOp' = [op |-> "SlicerVolumeModel", raised |-> TRUE, ret |-> None]
              /\ UNCHANGED << volumeModels, voxExp >>
  /\ prevObjs' = objs
  /\ ops' = ops + 1
  /\ UNCHANGED << meshModels, tvars, mvars >>

\* self.voxel_array[k] = val by the caller, on the i-th volume model
SetVoxel(i, k, val) ==
  /\ ops < MaxOps
  /\ i \in DOMAIN volumeModels
  /\ k \in DOMAIN voxExp[i]
  /\ LET arr == volumeModels[i].voxel_array
     IN  IF arr.view_of # None
         THEN /\ objs' = [objs EXCEPT ![arr.view_of].voxels[k] = val]
              /\ volumeModels' = volumeModels
         ELSE /\ volumeModels' = [volumeModels EXCEPT ![i].voxel_array.own[k] = val]
              /\ objs' = objs
  /\ voxExp' = [voxExp EXCEPT ![i][k] = val]
  /\ log' = Append(log, [ev |-> "edit", node |-> volumeModels[i].label_volumeNode])
  /\ lastOp' = [op |-> "edit", raised |-> FALSE, ret |-> i]
  /\ prevObjs' = objs
  /\ ops' = ops + 1
  /\ UNCHANGED << meshModels, tvars, mvars >>

\* register_visual_change that notifies the volume node only
register_visual_change_VolumeOnly(i) ==
  /\ ops < MaxOps
  /\ i \in DOMAIN volumeModels
  /\ LET s1 == Modified([objs |-> objs, log |-> log], volumeModels[i].label_volumeNode)
     IN  /\ objs' = s1.objs
         /\ log' = s1.log
  /\ lastOp' = [op |-> "register_visual_change", raised |-> FALSE, ret |-> i]
  /\ prevObjs' = objs
  /\ ops' = ops + 1
  /\ UNCHANGED << meshModels, volumeModels, voxExp, tvars, mvars >>

\* SlicerVolumeModel.register_visual_change(self), on the i-th volume model
register_visual_change(i) ==
  /\ ops < MaxOps
  /\ i \in DOMAIN volumeModels
  /\ LET s1 == Modified([objs |-> objs, log |-> log], volumeModels[i].label_volumeNode)
         s2 == Modified(s1, volumeModels[i].displayNode)
     IN  /\ objs' = s2.objs
         /\ log' = s2.log
  /\ lastOp' = [op |-> "register_visual_change", raised |-> FALSE, ret |-> i]
  /\ prevObjs' = objs
  /\ ops' = ops + 1
  /\ UNCHANGED << meshModels, volumeModels, voxExp, tvars, mvars >>

NoOp == [op |-> "none", raised |-> FALSE, ret |-> None]

\* an empty scene
SceneIdle ==
  /\ objs = << >>
  /\ log = << >>
  /\ meshModels = << >>
  /\ volumeModels = << >>
  /\ voxExp = << >>
  /\ lastOp = NoOp
  /\ prevObjs = << >>
  /\ ops = 0

(* ---------------------------------------------------------------------- *)
(* Transform nodes                                                         *)
(* ---------------------------------------------------------------------- *)
Nodes == 1..NumNodes

\* vtkMRMLTransformNode::GetMatrixTransformToWorld over the state (p, tp)
RECURSIVE MatrixTransformToWorld(_, _, _)
MatrixTransformToWorld(p, tp, n) ==
  IF p[n] = None THEN tp[n]
  ELSE Dot(MatrixTransformToWorld(p, tp, p[n]), tp[n])

\* arrayFromTransformMatrix(transformNode, toWorld)
arrayFromTransformMatrix(p, tp, n, toWorld) ==
  IF toWorld THEN MatrixTransformToWorld(p, tp, n) ELSE tp[n]

\* the matrix updateTransformMatrixFromArray obtains for the parent: the call
\* on line 137 passes no toWorld argument, so toWorld takes its default False
narrayParentToWorld(p, tp, n) == arrayFromTransformMatrix(p, tp, p[n], FALSE)

\* updateTransformMatrixFromArray(transformNode, narray, toWorld)
updateTransformMatrixFromArray(n, narray, toWorld) ==
  /\ calls < MaxCalls
  /\ calls' = calls + 1
  /\ parent' = parent
  /\ UNCHANGED << mvars, svars >>
  /\ IF toWorld /\ parent[n] # None
     THEN LET pw == narrayParentToWorld(parent, toParent, n)
          IN  IF Invertible(pw)
              THEN /\ toParent' = [toParent EXCEPT ![n] = Dot(Inv(pw), narray)]
                   /\ last' = [node |-> n, narray |-> narray, toWorld |-> toWorld,
                               raised |-> FALSE]
              ELSE /\ toParent' = toParent
                   /\ last' = [node |-> n, narray |-> narray, toWorld |-> toWorld,
                               raised |-> TRUE]
     ELSE /\ toParent' = [toParent EXCEPT ![n] = narray]
          /\ last' = [node |-> n, narray |-> narray, toWorld |-> toWorld,
                      raised |-> FALSE]

NoCall == [node |-> None, narray |-> I4, toWorld |-> FALSE, raised |-> FALSE]

\* a scene of NumNodes transform nodes, each observing an earlier node or none
InitTransform ==
  /\ parent \in {p \in [Nodes -> Nodes \cup {None}] : \A n \in Nodes : p[n] < n}
  /\ toParent = [n \in Nodes |-> I4]
  /\ calls = 0
  /\ last = NoCall
  /\ MatrixIdle
  /\ SceneIdle

NextTransform ==
  \E n \in Nodes, narray \in Arrays4, toWorld \in BOOLEAN :
    updateTransformMatrixFromArray(n, narray, toWorld)

SpecTransform == InitTransform /\ [][NextTransform]_vars

\* C1: after updateTransformMatrixFromArray(node, narray, toWorld=True) returns,
\* the node's transform-to-world matrix equals narray, whatever the length of
\* the node's chain of parents.
C1_WorldEqualsArray ==
  (last.node # None /\ last.toWorld /\ ~last.raised)
    => MatrixTransformToWorld(parent, toParent, last.node) = last.narray

(* ---------------------------------------------------------------------- *)
(* Specification of the matrix conversions                                 *)
(* ---------------------------------------------------------------------- *)
TransformIdle ==
  /\ parent = [n \in Nodes |-> None]
  /\ toParent = [n \in Nodes |-> I4]
  /\ calls = 0
  /\ last = NoCall

\* the caller starts with one VTK object or with one numpy array
InitMatrix ==
  /\ TransformIdle
  /\ SceneIdle
  /\ conv = NoConv
  /\ since = {}
  /\ edits = 0
  /\ \/ \E x \in VTKInputs :
          /\ vmat = [kind |-> x.kind, buf |-> 1]
          /\ narr = NoArray
          /\ heap = << x.elems, << >> >>
          /\ vExp = x.elems
          /\ aExp = << >>
     \/ \E x \in ArrayInputs :
          /\ narr = [shape |-> x.shape, buf |-> 1]
          /\ vmat = NoMatrix
          /\ heap = << x.elems, << >> >>
          /\ aExp = x.elems
          /\ vExp = << >>

NextMatrix ==
  \/ ArrayFromVTKMatrix
  \/ VtkMatrixFromArray
  \/ \E k \in 1..16, v \in EditVals : SetElement(k, v)
  \/ \E k \in 1..16, v \in EditVals : SetItem(k, v)

SpecMatrix == InitMatrix /\ [][NextMatrix]_vars

\* C4: arrayFromVTKMatrix(vmatrix) returns, for a 4x4 or 3x3 VTK matrix, an
\* array of the same size holding the matrix's elements; the array is a copy:
\* from then on the array holds those elements changed only by the edits made
\* to the array, and the matrix holds its own elements changed only by the
\* edits made to the matrix (the call itself changes none of them).
C4_ArrayIsCopy ==
  (conv.op = "arrayFromVTKMatrix" /\ ~conv.raised) =>
    /\ IsVTKMatrix(vmat.kind)
    /\ narr.shape = << matrixSize(vmat.kind), matrixSize(vmat.kind) >>
    /\ Len(heap[narr.buf]) = matrixSize(vmat.kind) * matrixSize(vmat.kind)
    /\ heap[narr.buf] = aExp
    /\ heap[vmat.buf] = vExp

\* a 3x3 matrix was converted, and then both it and the array were edited
C4_Witness ==
  /\ conv.op = "arrayFromVTKMatrix" /\ ~conv.raised
  /\ vmat.kind = "vtkMatrix3x3"
  /\ since = {"array", "matrix"}
  /\ heap[narr.buf] # heap[vmat.buf]

\* C5: vtkMatrixFromArray(narray) returns a new vtkMatrix4x4 for a (4,4) array
\* and a new vtkMatrix3x3 for a (3,3) array, holding the array's elements; the
\* matrix is a copy (later edits of the array do not reach it, and the call
\* leaves the array as it was); for every other shape it raises RuntimeError
\* and the caller gets no matrix.
C5_MatrixIsCopy ==
  (conv.op = "vtkMatrixFromArray") =>
    IF narr.shape \in {<< 4, 4 >>, << 3, 3 >>}
    THEN /\ ~conv.raised
         /\ vmat.kind = (IF narr.shape = << 4, 4 >> THEN "vtkMatrix4x4"
                         ELSE "vtkMatrix3x3")
         /\ vmat.buf # narr.buf
         /\ heap[vmat.buf] = vExp
         /\ heap[narr.buf] = aExp
    ELSE /\ conv.raised
         /\ vmat = NoMatrix
         /\ heap[narr.buf] = aExp

\* a (3,3) array was converted, and then the array was edited
C5_Witness ==
  /\ conv.op = "vtkMatrixFromArray" /\ ~conv.raised
  /\ narr.shape = << 3, 3 >>
  /\ "array" \in since
  /\ heap[vmat.buf] # heap[narr.buf]

(* ---------------------------------------------------------------------- *)
(* Specification of the scene operations                                   *)
(* ---------------------------------------------------------------------- *)
InitScene ==
  /\ TransformIdle
  /\ MatrixIdle
  /\ SceneIdle

NextScene ==
  \/ \E ip \in IPs, port \in Ports, name \in Names : make_igtl_node(ip, port, name)
  \/ \E name \in Names, file \in Files : SlicerMeshModel(name, file)
  \/ \E file \in Files : SlicerVolumeModel(file)
  \/ \E i \in 1..MaxOps, k \in DOMAIN InitialVoxels, val \in VoxelVals : SetVoxel(i, k, val)
  \/ \E i \in 1..MaxOps : register_visual_change(i)

SpecScene == InitScene /\ [][NextScene]_vars

\* the host calls made on node n, in order
EventsOf(n) ==
  LET sel == SelectSeq(log, LAMBDA e : e.node = n)
  IN  [k \in 1..Len(sel) |-> sel[k].ev]

\* some call ev on node n was made after the first j calls of the log
After(j, ev, n) == \E k \in DOMAIN log : k > j /\ log[k] = [ev |-> ev, node |-> n]

\* the place in the log of the last edit of volume node v, 0 when never edited
LastEdit(v) ==
  LET E == {k \in DOMAIN log : log[k] = [ev |-> "edit", node |-> v]}
  IN  IF E = {} THEN 0 ELSE CHOOSE k \in E : \A j \in E : j <= k

\* C2: voxel_array aliases the storage of the loaded label volume node (the
\* node's voxels are at all times what the edits of voxel_array wrote), and
\* once register_visual_change() has returned, the volume node and its
\* volume-rendering display node have each received a Modified notification
\* issued after the last edit, and the voxels are as the edits left them.
C2_EditsNotified ==
  /\ \A i \in DOMAIN volumeModels :
       objs[volumeModels[i].label_volumeNode].voxels = voxExp[i]
  /\ (lastOp.op = "register_visual_change") =>
       LET vm == volumeModels[lastOp.ret]
       IN  /\ After(LastEdit(vm.label_volumeNode), "Modified", vm.label_volumeNode)
           /\ After(LastEdit(vm.label_volumeNode), "Modified", vm.displayNode)
           /\ objs[vm.displayNode].class = "vtkMRMLVolumeRenderingDisplayNode"
           /\ objs[vm.displayNode].id \in objs[vm.label_volumeNode].displayIDs

\* a volume was edited after an earlier refresh, and refreshed again
C2_Witness ==
  /\ lastOp.op = "register_visual_change"
  /\ LastEdit(volumeModels[lastOp.ret].label_volumeNode) > 0
  /\ \E k \in DOMAIN log :
       /\ k < LastEdit(volumeModels[lastOp.ret].label_volumeNode)
       /\ log[k] = [ev |-> "Modified", node |-> volumeModels[lastOp.ret].displayNode]
  /\ objs[volumeModels[lastOp.ret].label_volumeNode].voxels # InitialVoxels

\* C3: for every SlicerMeshModel constructed, the scene contains a transform
\* node named transform_name that the constructor created, the mesh model node
\* observes exactly that node (its observed ID is self.transform_nodeID, the
\* node's ID), and the node was added to the scene before the model was set to
\* observe it; every observed transform ID is the ID of a node in the scene.
C3_MeshObservesTransform ==
  /\ \A i \in DOMAIN meshModels :
       LET mm == meshModels[i]
           t == mm.transform_node
           m == mm.mesh_model_node
       IN  /\ objs[t].class = "vtkMRMLTransformNode"
           /\ objs[t].id # None
           /\ objs[t].name = mm.transform_name
           /\ mm.transform_nodeID = objs[t].id
           /\ objs[m].class = "vtkMRMLModelNode"
           /\ objs[m].transformID = mm.transform_nodeID
           /\ \E j, k \in DOMAIN log :
                /\ j < k
                /\ log[j] = [ev |-> "AddNode", node |-> t]
                /\ log[k] = [ev |-> "SetAndObserveTransformNodeID", node |-> m]
           /\ \A j \in DOMAIN meshModels :
                j # i => meshModels[j].transform_node # t
  /\ \A n \in DOMAIN objs :
       objs[n].transformID # None =>
         \E k \in InScene(objs) : objs[k].id = objs[n].transformID
  /\ (lastOp.op = "SlicerMeshModel" /\ ~lastOp.raised) =>
       /\ lastOp.ret = Len(meshModels)
       /\ meshModels[lastOp.ret].transform_node > Len(prevObjs)

\* a second mesh model was constructed with the transform name of the first
C3_Witness ==
  /\ lastOp.op = "SlicerMeshModel" /\ ~lastOp.raised
  /\ Len(meshModels) = 2
  /\ meshModels[1].transform_name = meshModels[2].transform_name
  /\ objs[meshModels[2].mesh_model_node].transformID = meshModels[2].transform_nodeID

ConnectorOrder == << "AddNode", "SetName", "SetTypeClient", "Start" >>

\* C6: make_igtl_node(ip, port, name) returns one new connector node that is in
\* the scene, is named name and is a started client of (ip, port); the calls
\* on it were made in the order AddNode, SetName, SetTypeClient, Start; the
\* call adds exactly one node to the scene and leaves every earlier node as it
\* was.
C6_ConnectorOrder ==
  /\ \A n \in DOMAIN objs :
       objs[n].class = "vtkMRMLIGTLConnectorNode" =>
         /\ EventsOf(n) = ConnectorOrder
         /\ objs[n].started
         /\ objs[n].id # None
         /\ objs[n].client # << >>
  /\ (lastOp.op = "make_igtl_node") =>
       /\ ~lastOp.raised
       /\ Len(objs) = Len(prevObjs) + 1
       /\ SubSeq(objs, 1, Len(prevObjs)) = prevObjs
       /\ lastOp.ret = Len(objs)
       /\ objs[lastOp.ret].class = "vtkMRMLIGTLConnectorNode"
       /\ objs[lastOp.ret].name = lastOp.args.name
       /\ objs[lastOp.ret].client = << lastOp.args.ip, lastOp.args.port >>
       /\ \A k \in InScene(prevObjs) : objs[k].id # objs[lastOp.ret].id
       /\ Cardinality(InScene(objs)) = Cardinality(InScene(prevObjs)) + 1

\* a connector was made in a scene that already held a connector and a volume
C6_Witness ==
  /\ lastOp.op = "make_igtl_node"
  /\ Len(prevObjs) > 1
  /\ \E n \in DOMAIN prevObjs : prevObjs[n].class = "vtkMRMLIGTLConnectorNode"
  /\ \E n \in DOMAIN prevObjs : prevObjs[n].class = "vtkMRMLLabelMapVolumeNode"
  /\ objs[lastOp.ret].started

====
